---- MODULE Spec2Model ----
(***************************************************************************)
(* GenericCrudPage: a React component holding three slices of local state  *)
(* (search text, pending form values, validation errors) over props owned  *)
(* by the caller (data, columns, formFields, callbacks, loading).          *)
(*                                                                         *)
(* JavaScript strings are sequences of one-character strings. JavaScript   *)
(* values are tagged records. Every action is one event followed by the    *)
(* re-render it causes (the useMemo of filteredData).                      *)
(***************************************************************************)
EXTENDS Naturals, Sequences, FiniteSets, TLC

VARIABLES
    data,           \* prop: the caller's collection (sequence of records)
    columns,        \* prop: column declarations
    loading,        \* prop: the caller's loading flag
    confirmDelete,  \* prop: ask before deleting
    formFields,     \* prop: form field declarations
    handlers,       \* props: which of onAdd/onEdit/onDelete/onRefresh are supplied
    formState,      \* useState({})   pending form values
    search,         \* useState('')   search text
    formErrors,     \* useState({})   validation errors
    editingItem,    \* useState(null) never written by the component
    filteredData,   \* useMemo result of the latest render
    view,           \* what the latest render shows below the search bar
    customStyles,   \* prop: style overrides per region
    styles,         \* useMemo result: the merged styles of the latest render
    defaultStyles,  \* the defaultStyles object of styles.js
    last            \* what the latest event did (callbacks called, prompts, throws)

vars == <<data, columns, loading, confirmDelete, formFields, handlers, formState, search,
          formErrors, editingItem, filteredData, view, customStyles, styles,
          defaultStyles, last>>

----------------------------------------------------------------------------
(* Bounds of the model *)

MaxData == 2
MaxFilterData == 2
MaxFilterSearch == 2
MaxStyledRegions == 2

----------------------------------------------------------------------------
(* JavaScript values *)

Undefined == [t |-> "undefined"]
Null == [t |-> "null"]
True == [t |-> "boolean", b |-> TRUE]
False == [t |-> "boolean", b |-> FALSE]
Str(s) == [t |-> "string", s |-> s]
Num(n) == [t |-> "number", n |-> n]

\* ToBoolean: undefined, null, false, 0 and '' are falsy
Truthy(v) ==
    CASE v.t = "undefined" -> FALSE
      [] v.t = "null" -> FALSE
      [] v.t = "boolean" -> v.b
      [] v.t = "number" -> v.n # 0
      [] v.t = "string" -> v.s # <<>>

\* value == null
IsNullish(v) == v.t \in {"undefined", "null"}

\* obj[key]: undefined when the key is absent
Get(obj, key) == IF key \in DOMAIN obj THEN obj[key] ELSE Undefined

\* { ...obj, [key]: value }
Put(obj, key, value) ==
    [k \in (DOMAIN obj) \cup {key} |-> IF k = key THEN value ELSE obj[k]]

EmptyObject == [k \in {} |-> Undefined]

----------------------------------------------------------------------------
(* String.prototype functions *)

Whitespace == {" ", "\t", "\n"}

UpperCase == <<"A","B","C","D","E","F","G","H","I","J","K","L","M",
               "N","O","P","Q","R","S","T","U","V","W","X","Y","Z">>
LowerCase == <<"a","b","c","d","e","f","g","h","i","j","k","l","m",
               "n","o","p","q","r","s","t","u","v","w","x","y","z">>

UpperCaseLetters == {UpperCase[i] : i \in 1..Len(UpperCase)}

toLowerChar(c) ==
    IF c \in UpperCaseLetters
    THEN LowerCase[CHOOSE i \in 1..Len(UpperCase) : UpperCase[i] = c]
    ELSE c

toLowerCase(s) == [i \in 1..Len(s) |-> toLowerChar(s[i])]

RECURSIVE trimStart(_)
trimStart(s) ==
    IF s # <<>> /\ Head(s) \in Whitespace THEN trimStart(Tail(s)) ELSE s

RECURSIVE trimEnd(_)
trimEnd(s) ==
    IF s # <<>> /\ s[Len(s)] \in Whitespace
    THEN trimEnd(SubSeq(s, 1, Len(s) - 1))
    ELSE s

trim(s) == trimEnd(trimStart(s))

startsWithAt(s, sub, i) ==
    /\ i + Len(sub) - 1 <= Len(s)
    /\ \A j \in 1..Len(sub) : s[i + j - 1] = sub[j]

\* s.includes(sub): scan the start positions left to right
RECURSIVE includesFrom(_, _, _)
includesFrom(s, sub, i) ==
    IF i + Len(sub) - 1 > Len(s) THEN FALSE
    ELSE IF startsWithAt(s, sub, i) THEN TRUE
    ELSE includesFrom(s, sub, i + 1)

includes(s, sub) == includesFrom(s, sub, 1)

Digits == <<"0","1","2","3","4","5","6","7","8","9">>

RECURSIVE numberToString(_)
numberToString(n) ==
    IF n < 10 THEN <<Digits[n + 1]>>
    ELSE numberToString(n \div 10) \o <<Digits[(n % 10) + 1]>>

\* value.toString() of a non-nullish value
toString(v) ==
    CASE v.t = "string" -> v.s
      [] v.t = "number" -> numberToString(v.n)
      [] v.t = "boolean" -> IF v.b THEN <<"t","r","u","e">>
                                   ELSE <<"f","a","l","s","e">>

----------------------------------------------------------------------------
(* filteredData (useMemo over data, search, columns) *)

\* columnMatches comparing the query as typed (no search.toLowerCase())
columnMatchesQueryAsTyped(item, col, q) ==
    LET value == Get(item, col.key)
    IN  IF IsNullish(value) THEN FALSE
        ELSE includes(toLowerCase(toString(value)), q)

\* the callback of columns.some
columnMatches(item, col, q) ==
    LET value == Get(item, col.key)
    IN  IF IsNullish(value) THEN FALSE
        ELSE includes(toLowerCase(toString(value)), toLowerCase(q))

\* the callback of data.filter
itemMatches(item, cols, q) ==
    \E c \in 1..Len(cols) : columnMatches(item, cols[c], q)

\* a filter whose loop starts at the second element
filterSkipFirst(d, cols, q) ==
    IF d = <<>> THEN <<>>
    ELSE SelectSeq(Tail(d), LAMBDA item : itemMatches(item, cols, q))

\* Array.prototype.filter: the kept elements in their original order
RECURSIVE filter(_, _, _)
filter(d, cols, q) ==
    IF d = <<>> THEN <<>>
    ELSE IF itemMatches(Head(d), cols, q)
         THEN <<Head(d)>> \o filter(Tail(d), cols, q)
         ELSE filter(Tail(d), cols, q)

\* FilteredData testing !search instead of !search.trim()
FilteredDataNoTrim(d, q, cols) ==
    IF q = <<>> THEN d ELSE filter(d, cols, q)

FilteredData(d, q, cols) ==
    IF trim(q) = <<>> THEN d ELSE filter(d, cols, q)

----------------------------------------------------------------------------
(* Form validation *)

IsRequiredSuffix == <<" ","i","s"," ","r","e","q","u","i","r","e","d">>

\* the required test without the trim
requiredFailsNoTrim(field, value) ==
    field.required /\ ~Truthy(value)

\* the required test of validateField
requiredFails(field, value) ==
    field.required /\ (~Truthy(value) \/ trim(toString(value)) = <<>>)

\* validateField(field, value); result is what field.validation(value) returns
validateField(field, value, result) ==
    IF requiredFails(field, value)
    THEN Str(field.label \o IsRequiredSuffix)
    ELSE IF field.validation /\ result # True
         THEN result
         ELSE Null

\* the test that guards errors[field.key] = error in validateForm
errorRecorded(error) == Truthy(error)

\* the forEach of validateForm over the first n fields: the errors object
RECURSIVE collectErrors(_, _, _, _)
collectErrors(fields, state, results, n) ==
    IF n = 0 THEN EmptyObject
    ELSE LET field == fields[n]
             error == validateField(field, Get(state, field.key), results[n])
             sofar == collectErrors(fields, state, results, n - 1)
         IN  IF errorRecorded(error) THEN Put(sofar, field.key, error) ELSE sofar

\* the value validateForm returns (isValid)
isValid(fields, state, results) ==
    \A n \in 1..Len(fields) :
        ~errorRecorded(validateField(fields[n], Get(state, fields[n].key), results[n]))

\* the calls of field.validation made by one validateForm, in order
RECURSIVE validationCalls(_, _, _, _)
validationCalls(fields, state, results, n) ==
    IF n = 0 THEN <<>>
    ELSE LET field == fields[n]
             value == Get(state, field.key)
             rest == validationCalls(fields, state, results, n - 1)
         IN  IF field.validation /\ ~requiredFails(field, value)
             THEN Append(rest, [key |-> field.key, value |-> value,
                                result |-> results[n]])
             ELSE rest

----------------------------------------------------------------------------
(* Inputs *)

Callbacks == {"onAdd", "onEdit", "onDelete", "onRefresh"}

\* what a caller's validation function may return
ValidationReturns ==
    {True, False, Undefined, Null, Str(<<>>), Str(<<"b","a","d">>)}

\* what the user can leave in an input (e.target.value)
FieldInputs == {Str(<<" ">>), Str(<<" ","a">>)}

NameField(req, val) ==
    [key |-> "name", label |-> <<"N","a","m","e">>, required |-> req, validation |-> val]
EmailField(req, val) ==
    [key |-> "email", label |-> <<"E","m","a","i","l">>, required |-> req, validation |-> val]

\* a field declaration that also carries defaultValue
WithDefault(field, value) ==
    [k \in (DOMAIN field) \cup {"defaultValue"} |->
        IF k = "defaultValue" THEN value ELSE field[k]]

TestFormFields == <<NameField(TRUE, FALSE), EmailField(TRUE, TRUE)>>
OptionalFormFields ==
    <<NameField(TRUE, FALSE), WithDefault(EmailField(FALSE, TRUE), Str(<<"d">>))>>

\* the prop combinations the component is mounted with
PropSets ==
    {[formFields |-> TestFormFields, handlers |-> Callbacks \cup {"renderActions"},
      confirmDelete |-> TRUE],
     [formFields |-> OptionalFormFields, handlers |-> Callbacks, confirmDelete |-> FALSE],
     [formFields |-> TestFormFields, handlers |-> {"renderActions"},
      confirmDelete |-> TRUE]}

Rec1 == [id |-> Num(1), name |-> Str(<<"J","o">>), email |-> Str(<<"j","@","x">>)]
Rec2 == [id |-> Num(2), name |-> Str(<<"a","j">>), email |-> Null]
Rec3 == [id |-> Num(12), name |-> Null, role |-> Str(<<"J">>)]
Records == {Rec1, Rec2, Rec3}

Col(k) == [key |-> k]
ColumnLists ==
    {<<>>, <<Col("name")>>, <<Col("email"), Col("name")>>,
     <<Col("name"), Col("email"), Col("id")>>}

SearchChars == {" ", "J", "1"}

\* what the user types into the search input in the full component
Queries == {<<>>, <<" ">>, <<"J">>}

\* the returns of the declared validation functions, one per field; a field
\* without a validation function has none
ValidationResults(fields) ==
    {r \in [1..Len(fields) -> ValidationReturns] :
        \A n \in 1..Len(fields) : ~fields[n].validation => r[n] = Undefined}

SeqsUpTo(S, n) == UNION {[1..k -> S] : k \in 0..n}

Collections == SeqsUpTo({Rec1, Rec3}, MaxData)
FilterCollections == SeqsUpTo(Records, MaxFilterData)
FilterQueries == SeqsUpTo(SearchChars, MaxFilterSearch)

----------------------------------------------------------------------------
(* What one event did: the callbacks it called (with argument and whether  *)
(* they threw), the validation functions it called (with argument and      *)
(* return), what validateForm returned, the row acted on, the answer of    *)
(* window.confirm, and whether an exception left the handler.              *)

Call(fn, arg, threw) == [fn |-> fn, arg |-> arg, threw |-> threw]

Event(op, calls, validated, valid, row, confirm, escaped) ==
    [op |-> op, calls |-> calls, validated |-> validated, valid |-> valid,
     row |-> row, confirm |-> confirm, escaped |-> escaped]

Quiet(op) == Event(op, <<>>, <<>>, FALSE, Undefined, "none", FALSE)

----------------------------------------------------------------------------
(* The render below the search bar *)

EmptyMessage == "No data to display"
LoadingMessage == "Loading data..."
NoResultsMessage == "No results found"

\* loading ? ... : filteredData.length === 0 ? ... : ...
branchOf(load, fd) ==
    IF load THEN "loading" ELSE IF Len(fd) = 0 THEN "empty" ELSE "table"

\* an empty branch that tests the trimmed query, as the filter does
emptyTextTrimmed(q) == IF trim(q) # <<>> THEN NoResultsMessage ELSE EmptyMessage

\* search ? 'No results found' : emptyMessage
emptyText(q) == IF q # <<>> THEN NoResultsMessage ELSE EmptyMessage

\* whether a row gets the actions cell
hasActionsCell(hs) == hs \cap {"onEdit", "onDelete", "renderActions"} # {}

\* an actions cell that calls renderActions only when it has no other button
callsRenderActionsAlone(hs) ==
    hs \cap {"onEdit", "onDelete", "renderActions"} = {"renderActions"}

\* whether a row's actions cell calls renderActions(item)
callsRenderActions(hs) == hasActionsCell(hs) /\ "renderActions" \in hs

\* filteredData.map: the arguments of the renderActions calls, in row order
RECURSIVE renderRows(_, _)
renderRows(fd, hs) ==
    IF fd = <<>> THEN <<>>
    ELSE (IF callsRenderActions(hs) THEN <<Head(fd)>> ELSE <<>>)
         \o renderRows(Tail(fd), hs)

View(load, fd, q, hs) ==
    LET branch == branchOf(load, fd)
    IN  [branch |-> branch,
         message |-> CASE branch = "loading" -> LoadingMessage
                       [] branch = "empty" -> emptyText(q)
                       [] branch = "table" -> "",
         actions |-> IF branch = "table" THEN renderRows(fd, hs) ELSE <<>>]

\* a useMemo whose dependency list lacks data: the view of the earlier data
RenderStaleData ==
    /\ filteredData' = FilteredData(data, search', columns')
    /\ view' = View(loading', filteredData', search', handlers')

\* the render that follows every event or prop change
Render ==
    /\ filteredData' = FilteredData(data', search', columns')
    /\ view' = View(loading', filteredData', search', handlers')

Styling == <<customStyles, styles, defaultStyles>>

Props == <<data, columns, loading, confirmDelete, formFields, handlers, Styling>>

----------------------------------------------------------------------------
(* styles (useMemo over customStyles) *)

DefaultStyles ==
    [container |->
        [fontFamily |-> "-apple-system, BlinkMacSystemFont, \"Segoe UI\", Roboto, sans-serif",
         maxWidth |-> "1200px", margin |-> "0 auto", padding |-> "20px",
         backgroundColor |-> "#ffffff", borderRadius |-> "8px",
         boxShadow |-> "0 2px 10px rgba(0, 0, 0, 0.1)"],
     header |->
        [display |-> "flex", justifyContent |-> "space-between", alignItems |-> "center",
         marginBottom |-> "24px", paddingBottom |-> "16px",
         borderBottom |-> "1px solid #e1e5e9"],
     form |->
        [display |-> "grid",
         gridTemplateColumns |-> "repeat(auto-fit, minmax(200px, 1fr))",
         gap |-> "16px", marginBottom |-> "24px", padding |-> "20px",
         backgroundColor |-> "#f8f9fa", borderRadius |-> "8px",
         border |-> "1px solid #e1e5e9"],
     formField |->
        [display |-> "flex", flexDirection |-> "column", gap |-> "8px"],
     addButton |->
        [display |-> "flex", alignItems |-> "center", gap |-> "8px",
         padding |-> "12px 24px", backgroundColor |-> "#007bff", color |-> "white",
         border |-> "none", borderRadius |-> "6px", cursor |-> "pointer",
         fontSize |-> "14px", fontWeight |-> "500",
         transition |-> "background-color 0.2s", alignSelf |-> "end"],
     refreshButton |->
        [display |-> "flex", alignItems |-> "center", gap |-> "8px",
         padding |-> "8px 16px", backgroundColor |-> "#6c757d", color |-> "white",
         border |-> "none", borderRadius |-> "6px", cursor |-> "pointer",
         fontSize |-> "14px", transition |-> "background-color 0.2s"],
     searchBar |->
        [display |-> "flex", justifyContent |-> "space-between", alignItems |-> "center",
         marginBottom |-> "20px", gap |-> "16px"],
     table |->
        [width |-> "100%", borderCollapse |-> "collapse", backgroundColor |-> "white",
         borderRadius |-> "8px", overflow |-> "hidden",
         boxShadow |-> "0 1px 3px rgba(0, 0, 0, 0.1)"],
     loading |->
        [textAlign |-> "center", padding |-> "40px", color |-> "#6c757d",
         fontSize |-> "16px"],
     empty |->
        [textAlign |-> "center", padding |-> "40px", color |-> "#6c757d",
         fontSize |-> "16px", backgroundColor |-> "#f8f9fa", borderRadius |-> "8px",
         border |-> "1px solid #e1e5e9"]]

\* customStyles[key], spread: undefined spreads to nothing
overrideOf(custom, key) ==
    IF key \in DOMAIN custom THEN custom[key] ELSE EmptyObject

\* a spread in which the defaults are written last
spreadDefaultsLast(def, over) ==
    [k \in (DOMAIN def) \cup (DOMAIN over) |->
        IF k \in DOMAIN def THEN def[k] ELSE over[k]]

\* { ...def, ...over }
spread(def, over) ==
    [k \in (DOMAIN def) \cup (DOMAIN over) |->
        IF k \in DOMAIN over THEN over[k] ELSE def[k]]

\* Object.keys(defaultStyles).forEach(key => merged[key] = ...)
mergeStyles(defs, custom) ==
    [key \in DOMAIN defs |-> spread(defs[key], overrideOf(custom, key))]

\* the regions a caller names in customStyles, and the overrides it gives
StyleRegions == (DOMAIN DefaultStyles) \cup {"footer"}
StyleOverrides ==
    {[backgroundColor |-> "red"],
     [padding |-> "0", color |-> "blue"],
     [zIndex |-> "1"]}

\* whether an exception thrown by callback fn leaves the handler that calls
\* it: onAdd, onEdit and onDelete are called inside try/catch, onRefresh is
\* the onClick handler itself
escapesAlways(fn, threw) == threw

escapes(fn, threw) == IF fn = "onRefresh" THEN threw ELSE FALSE

----------------------------------------------------------------------------
(* Initial state: the first render *)

Init ==
    /\ data \in Collections
    /\ columns = <<Col("name"), Col("email")>>
    /\ loading = FALSE
    /\ \E p \in PropSets :
           /\ confirmDelete = p.confirmDelete
           /\ formFields = p.formFields
           /\ handlers = p.handlers
    /\ formState = EmptyObject
    /\ search = <<>>
    /\ formErrors = EmptyObject
    /\ editingItem = Null
    /\ filteredData = FilteredData(data, search, columns)
    /\ view = View(loading, filteredData, search, handlers)
    /\ customStyles = EmptyObject
    /\ defaultStyles = DefaultStyles
    /\ styles = mergeStyles(defaultStyles, customStyles)
    /\ last = Quiet("render")

----------------------------------------------------------------------------
(* Events. Every control is disabled, and the table replaced by the loading *)
(* message, while loading is true.                                          *)

\* the search input without disabled={loading}
handleSearchChangeNotDisabled(q) ==
    /\ search' = q
    /\ last' = Quiet("search")
    /\ UNCHANGED <<Props, formState, formErrors, editingItem>>
    /\ Render

\* a search input whose onChange also drops the recorded errors
handleSearchChangeClearsErrors(q) ==
    /\ ~loading
    /\ search' = q
    /\ formErrors' = EmptyObject
    /\ last' = Quiet("search")
    /\ UNCHANGED <<Props, formState, editingItem>>
    /\ Render

\* onChange of the search input: setSearch(e.target.value)
handleSearchChange(q) ==
    /\ ~loading
    /\ search' = q
    /\ last' = Quiet("search")
    /\ UNCHANGED <<Props, formState, formErrors, editingItem>>
    /\ Render

\* a handleFieldChange that drops every recorded error
handleFieldChangeClearsAll(fieldKey, value) ==
    /\ ~loading
    /\ formState' = Put(formState, fieldKey, value)
    /\ formErrors' = EmptyObject
    /\ last' = Quiet("change")
    /\ UNCHANGED <<Props, search, editingItem>>
    /\ Render

\* a handleFieldChange that stores the trimmed value
handleFieldChangeTrimmed(fieldKey, value) ==
    /\ ~loading
    /\ formState' = Put(formState, fieldKey, Str(trim(value.s)))
    /\ formErrors' = IF Truthy(Get(formErrors, fieldKey))
                     THEN Put(formErrors, fieldKey, Null)
                     ELSE formErrors
    /\ last' = Quiet("change")
    /\ UNCHANGED <<Props, search, editingItem>>
    /\ Render

\* handleFieldChange(fieldKey, value)
handleFieldChange(fieldKey, value) ==
    /\ ~loading
    /\ formState' = Put(formState, fieldKey, value)
    /\ formErrors' = IF Truthy(Get(formErrors, fieldKey))
                     THEN Put(formErrors, fieldKey, Null)
                     ELSE formErrors
    /\ last' = Quiet("change")
    /\ UNCHANGED <<Props, search, editingItem>>
    /\ Render

\* a handleAdd that resets only when there is no callback to call
resetOnlyWithoutCallback(called, threw) == ~called

\* a handleAdd whose reset sits in a finally block
resetAlways(called, threw) == TRUE

\* whether handleAdd reaches setFormState({}) and setFormErrors({}): they
\* follow onAdd inside the try
resetReached(called, threw) == ~(called /\ threw)

\* handleFormSubmit -> handleAdd; results[n] is what formFields[n].validation
\* returns when called, threw is whether onAdd throws
handleAdd(results, threw) ==
    LET errors == collectErrors(formFields, formState, results, Len(formFields))
        valid == isValid(formFields, formState, results)
        validated == validationCalls(formFields, formState, results, Len(formFields))
        called == valid /\ "onAdd" \in handlers
        calls == IF called THEN <<Call("onAdd", formState, threw)>> ELSE <<>>
    IN  /\ ~loading
        /\ threw => called
        /\ last' = Event("add", calls, validated, valid, Undefined, "none",
                         called /\ escapes("onAdd", threw))
        /\ IF valid /\ resetReached(called, threw)
           THEN formErrors' = EmptyObject /\ formState' = EmptyObject
           ELSE formErrors' = errors /\ formState' = formState
        /\ UNCHANGED <<Props, search, editingItem>>
        /\ Render

\* a handleEdit that hands the callback the id of the row, as handleDelete does
handleEditPassesId(i, threw) ==
    /\ ~loading
    /\ "onEdit" \in handlers
    /\ i \in 1..Len(filteredData)
    /\ last' = Event("edit", <<Call("onEdit", Get(filteredData[i], "id"), threw)>>,
                     <<>>, FALSE, filteredData[i], "none", escapes("onEdit", threw))
    /\ UNCHANGED <<Props, formState, search, formErrors, editingItem>>
    /\ Render

\* the Edit button of row i: handleEdit(item)
handleEdit(i, threw) ==
    /\ ~loading
    /\ "onEdit" \in handlers
    /\ i \in 1..Len(filteredData)
    /\ last' = Event("edit", <<Call("onEdit", filteredData[i], threw)>>, <<>>, FALSE,
                     filteredData[i], "none", escapes("onEdit", threw))
    /\ UNCHANGED <<Props, formState, search, formErrors, editingItem>>
    /\ Render

\* whether handleDelete asks window.confirm (confirmMessage is not null)
confirmAsked(confirm) == confirm

\* a handleDelete that ignores the answer of window.confirm
deleteProceedsAlways(asked, accepted) == TRUE

\* whether handleDelete goes on to the callback after the prompt
deleteProceeds(asked, accepted) == ~(asked /\ ~accepted)

\* the Delete button of row i: handleDelete(item.id); accepted is what
\* window.confirm returns when it is asked
handleDelete(i, accepted, threw) ==
    /\ ~loading
    /\ "onDelete" \in handlers
    /\ i \in 1..Len(filteredData)
    /\ LET asked == confirmAsked(confirmDelete)
           called == deleteProceeds(asked, accepted)
           id == Get(filteredData[i], "id")
       IN  /\ threw => called
           /\ ~asked => accepted
           /\ last' = Event("delete",
                            IF called THEN <<Call("onDelete", id, threw)>> ELSE <<>>,
                            <<>>, FALSE, filteredData[i],
                            IF ~asked THEN "none"
                            ELSE IF accepted THEN "accepted" ELSE "declined",
                            called /\ escapes("onDelete", threw))
    /\ UNCHANGED <<Props, formState, search, formErrors, editingItem>>
    /\ Render

\* the Refresh button: onClick={onRefresh}
handleRefresh(threw) ==
    /\ ~loading
    /\ "onRefresh" \in handlers
    /\ last' = Event("refresh", <<Call("onRefresh", Undefined, threw)>>, <<>>, FALSE,
                     Undefined, "none", escapes("onRefresh", threw))
    /\ UNCHANGED <<Props, formState, search, formErrors, editingItem>>
    /\ Render

----------------------------------------------------------------------------
(* The caller re-renders the component with new props *)

setLoading(b) ==
    /\ loading # b
    /\ loading' = b
    /\ last' = Quiet("render")
    /\ UNCHANGED <<data, columns, confirmDelete, formFields, handlers, Styling,
                   formState, search, formErrors, editingItem>>
    /\ Render

replaceData(d) ==
    /\ data # d
    /\ data' = d
    /\ last' = Quiet("render")
    /\ UNCHANGED <<columns, loading, confirmDelete, formFields, handlers, Styling,
                   formState, search, formErrors, editingItem>>
    /\ Render

replaceColumns(c) ==
    /\ columns # c
    /\ columns' = c
    /\ last' = Quiet("render")
    /\ UNCHANGED <<data, loading, confirmDelete, formFields, handlers, Styling,
                   formState, search, formErrors, editingItem>>
    /\ Render

\* the caller sets (or, with override absent, drops) one region of customStyles
setCustomStyle(region, present, override) ==
    /\ customStyles' =
           IF present THEN Put(customStyles, region, override)
           ELSE [k \in (DOMAIN customStyles) \ {region} |-> customStyles[k]]
    /\ customStyles' # customStyles
    /\ Cardinality(DOMAIN customStyles') <= MaxStyledRegions
    /\ styles' = mergeStyles(defaultStyles, customStyles')
    /\ last' = Quiet("render")
    /\ UNCHANGED <<data, columns, loading, confirmDelete, formFields, handlers,
                   defaultStyles, formState, search, formErrors, editingItem>>
    /\ Render

----------------------------------------------------------------------------
(* Specifications *)

Next ==
    \/ \E q \in Queries : handleSearchChange(q)
    \/ \E n \in 1..Len(formFields), v \in FieldInputs :
           handleFieldChange(formFields[n].key, v)
    \/ \E results \in ValidationResults(formFields), threw \in BOOLEAN :
           handleAdd(results, threw)
    \/ \E i \in 1..MaxData, threw \in BOOLEAN : handleEdit(i, threw)
    \/ \E i \in 1..MaxData, accepted \in BOOLEAN, threw \in BOOLEAN :
           handleDelete(i, accepted, threw)
    \/ \E threw \in BOOLEAN : handleRefresh(threw)
    \/ \E b \in BOOLEAN : setLoading(b)
    \/ \E d \in Collections : replaceData(d)

Spec == Init /\ [][Next]_vars

\* the events that decide the filtered view, over larger inputs
InitFilter ==
    /\ Init
    /\ data = <<>>
    /\ handlers = {"renderActions"}

NextFilter ==
    \/ \E q \in FilterQueries : handleSearchChange(q)
    \/ \E d \in FilterCollections : replaceData(d)
    \/ \E c \in ColumnLists : replaceColumns(c)

SpecFilter == InitFilter /\ [][NextFilter]_vars

\* the prop changes that decide the merged styles
NextStyles ==
    \/ \E region \in StyleRegions, override \in StyleOverrides :
           setCustomStyle(region, TRUE, override)
    \/ \E region \in StyleRegions : setCustomStyle(region, FALSE, EmptyObject)

SpecStyles == InitFilter /\ [][NextStyles]_vars

----------------------------------------------------------------------------
(* Vocabulary of the properties *)

\* absent, or a string of whitespace only
IsBlankValue(v) ==
    \/ v = Undefined
    \/ v.t = "string" /\ \A i \in 1..Len(v.s) : v.s[i] \in Whitespace

IsBlankQuery(q) == \A i \in 1..Len(q) : q[i] \in Whitespace

\* q occurs in text at some offset, letter case ignored
ContainsIgnoringCase(text, q) ==
    \E off \in 0..Len(text) :
        /\ off + Len(q) <= Len(text)
        /\ \A j \in 1..Len(q) : toLowerChar(text[off + j]) = toLowerChar(q[j])

\* some declared column holds a present, non-null value containing q
RecordMatches(r, cols, q) ==
    \E c \in 1..Len(cols) :
        LET k == cols[c].key
        IN  /\ k \in DOMAIN r
            /\ r[k] # Null
            /\ ContainsIgnoringCase(toString(r[k]), q)

\* f picks elements of d at strictly increasing positions
IsSubsequence(f, d) ==
    \E pos \in [1..Len(f) -> 1..Len(d)] :
        /\ \A i \in 1..Len(f) : d[pos[i]] = f[i]
        /\ \A i \in 1..Len(f), j \in 1..Len(f) : i < j => pos[i] < pos[j]

\* the field shows an error message
HasError(errs, key) == Truthy(Get(errs, key))

FieldKeys == {formFields[n].key : n \in 1..Len(formFields)}

OnlyCall(event, fn, arg) ==
    /\ Len(event.calls) = 1
    /\ event.calls[1].fn = fn
    /\ event.calls[1].arg = arg

----------------------------------------------------------------------------
(* C1 *)

\* C1 (as stated): when onAdd is supplied and a submit attempt finds no error
\* on any declared field, onAdd is invoked exactly once with the pending form
\* values, and afterwards the pending form values and the validation errors
\* are both empty.
C1_SubmitAlwaysClears ==
    [][(last'.op = "add" /\ last'.valid /\ "onAdd" \in handlers) =>
          /\ OnlyCall(last', "onAdd", formState)
          /\ formState' = EmptyObject
          /\ formErrors' = EmptyObject]_vars

\* C1 (amended): when onAdd is supplied and a submit attempt finds no error on
\* any declared field, onAdd is invoked exactly once with the pending form
\* values and afterwards the validation errors are empty; the pending form
\* values are empty if onAdd returned, and unchanged if onAdd threw.
C1_SubmitClearsUnlessThrown ==
    [][(last'.op = "add" /\ last'.valid /\ "onAdd" \in handlers) =>
          /\ OnlyCall(last', "onAdd", formState)
          /\ formErrors' = EmptyObject
          /\ formState' = IF last'.calls[1].threw THEN formState ELSE EmptyObject]_vars

C1_Witness ==
    /\ last.op = "add"
    /\ last.valid
    /\ Len(last.calls) = 1
    /\ ~last.calls[1].threw
    /\ DOMAIN last.calls[1].arg = FieldKeys
    /\ formState = EmptyObject
    /\ formErrors = EmptyObject

----------------------------------------------------------------------------
(* C2 *)

\* C2: on every submit attempt each required field whose pending value is
\* absent or blank after trimming gets the error "<label> is required", and
\* onAdd is not invoked on a submit attempt after which any field has an error.
C2_RequiredBlankRejected ==
    [][last'.op = "add" =>
          /\ \A n \in 1..Len(formFields) :
                (formFields[n].required
                    /\ IsBlankValue(Get(formState, formFields[n].key)))
                => Get(formErrors', formFields[n].key)
                       = Str(formFields[n].label \o IsRequiredSuffix)
          /\ (\E k \in FieldKeys : HasError(formErrors', k)) => last'.calls = <<>>]_vars

C2_Witness ==
    /\ last.op = "add"
    /\ ~last.valid
    /\ "onAdd" \in handlers
    /\ last.calls = <<>>
    /\ Get(formState, "name") = Str(<<" ">>)
    /\ Get(formErrors, "name") = Str(<<"N","a","m","e">> \o IsRequiredSuffix)
    /\ "email" \notin DOMAIN formState
    /\ formFields[2].required
    /\ Get(formErrors, "email") = Str(<<"E","m","a","i","l">> \o IsRequiredSuffix)

----------------------------------------------------------------------------
(* C3 *)

\* C3: on a submit attempt, for every declared field that has a validation
\* function and passed the required check, the function is invoked with the
\* pending value, and any return value other than true (false, undefined, null
\* and '' included) is recorded verbatim as that field's error, so the
\* submission is aborted and onAdd is not invoked.
C3_NonTrueReturnRejected ==
    [][last'.op = "add" =>
          /\ \A n \in 1..Len(formFields) :
                LET field == formFields[n]
                    value == Get(formState, field.key)
                IN  (field.validation /\ ~(field.required /\ IsBlankValue(value)))
                    => \E i \in 1..Len(last'.validated) :
                          /\ last'.validated[i].key = field.key
                          /\ last'.validated[i].value = value
          /\ \A i \in 1..Len(last'.validated) :
                LET v == last'.validated[i]
                IN  v.result # True =>
                       /\ Get(formErrors', v.key) = v.result
                       /\ last'.calls = <<>>]_vars

----------------------------------------------------------------------------
(* C4 *)

\* C4: for a non-blank query, the filtered view holds exactly the records in
\* which at least one declared column has a present, non-null value whose text
\* contains the query, letter case ignored; a null or absent value in one
\* column does not match and does not prevent a match on another column.
C4_FilterMatchesColumns ==
    ~IsBlankQuery(search) =>
        filteredData = SelectSeq(data, LAMBDA r : RecordMatches(r, columns, search))

C4_Witness ==
    /\ ~IsBlankQuery(search)
    /\ Len(filteredData) < Len(data)
    /\ \E i \in 1..Len(filteredData) :
          /\ Len(columns) > 1
          /\ IsNullish(Get(filteredData[i], columns[1].key))
          /\ \E c \in 2..Len(columns) :
                /\ ~IsNullish(Get(filteredData[i], columns[c].key))
                /\ toString(Get(filteredData[i], columns[c].key)) # toLowerCase(search)
                /\ ContainsIgnoringCase(toString(Get(filteredData[i], columns[c].key)), search)

----------------------------------------------------------------------------
(* C5 *)

\* C5: in every reachable state the filtered view holds only records of the
\* caller's current data, each at most as often as in the data, in the same
\* relative order.
C5_FilteredIsSubsequence == IsSubsequence(filteredData, data)

C5_Witness ==
    /\ ~IsBlankQuery(search)
    /\ formState # EmptyObject
    /\ Len(data) = 2
    /\ data[1] # data[2]
    /\ filteredData = <<data[2]>>
    /\ last.op = "add"

----------------------------------------------------------------------------
(* C6 *)

\* C6: when the search query is empty or whitespace only, the filtered view
\* is exactly the caller's data: same records, same order.
C6_BlankQueryShowsAll == IsBlankQuery(search) => filteredData = data

C6_Witness ==
    /\ search # <<>>
    /\ IsBlankQuery(search)
    /\ Len(data) > 1
    /\ columns # <<>>
    /\ filteredData = data

----------------------------------------------------------------------------
(* C7 *)

\* C7: filtering is idempotent: filtering the filtered view again with the
\* same query and columns yields the filtered view.
C7_FilterIdempotent == FilteredData(filteredData, search, columns) = filteredData

C7_Witness ==
    /\ ~IsBlankQuery(search)
    /\ Len(filteredData) > 0
    /\ Len(filteredData) < Len(data)
    /\ FilteredData(filteredData, search, columns) = filteredData

----------------------------------------------------------------------------
(* C8 *)

\* C8: a delete action on a row invokes onDelete with that row's id exactly
\* once if and only if confirmDelete is false or the confirmation is accepted;
\* with confirmDelete true and the confirmation declined onDelete is not
\* invoked; with confirmDelete false no confirmation is requested.
C8_DeleteGatedByConfirm ==
    last.op = "delete" =>
        /\ OnlyCall(last, "onDelete", Get(last.row, "id"))
              <=> (~confirmDelete \/ last.confirm = "accepted")
        /\ (confirmDelete /\ last.confirm = "declined") => last.calls = <<>>
        /\ ~confirmDelete => last.confirm = "none"

C8_Witness ==
    /\ last.op = "delete"
    /\ confirmDelete
    /\ last.confirm = "declined"
    /\ last.calls = <<>>
    /\ last.row \in Records

----------------------------------------------------------------------------
(* C9 *)

\* C9: an exception thrown by onAdd, onEdit or onDelete is caught inside the
\* component's handler and never leaves it, and afterwards the component
\* still takes events.
C9_CallbackThrowCaught ==
    \A i \in 1..Len(last.calls) :
        (last.calls[i].fn \in {"onAdd", "onEdit", "onDelete"} /\ last.calls[i].threw)
        => /\ ~last.escaped
           /\ ENABLED (\E q \in Queries : handleSearchChange(q))
           /\ ENABLED (\E v \in FieldInputs : handleFieldChange(formFields[1].key, v))

C9_Witness ==
    /\ last.op = "add"
    /\ Len(last.calls) = 1
    /\ last.calls[1].threw
    /\ ~last.escaped
    /\ formState # EmptyObject

----------------------------------------------------------------------------
(* C10 *)

\* C10: while loading is true no step changes the search query or the pending
\* form values and no callback is invoked; entering and leaving loading keeps
\* the search query and the pending form values; after a render with loading
\* false the search input and the form inputs take input.
C10_LoadingFreezesControls ==
    [][/\ (loading \/ loading') =>
             /\ search' = search
             /\ formState' = formState
             /\ last'.calls = <<>>
       /\ (~loading /\ last.op = "render") =>
             /\ ENABLED (\E q \in Queries : handleSearchChange(q))
             /\ ENABLED (\E v \in FieldInputs : handleFieldChange(formFields[1].key, v))]_vars

C10_Witness ==
    /\ loading
    /\ search # <<>>
    /\ formState # EmptyObject
    /\ handlers = Callbacks
    /\ filteredData # <<>>

----------------------------------------------------------------------------
(* C11 *)

\* the declared fields whose pending value a step changes
ChangedFields == {k \in FieldKeys : Get(formState', k) # Get(formState, k)}

\* C11: a field edit clears the error of the edited field only: after the edit
\* the edited field has a pending value and no error, even when the value is
\* blank and the field required; the error entry of every other field is what
\* it was, and the edit calls no validation function and no callback.
C11_EditClearsOwnErrorOnly ==
    [][last'.op = "change" =>
          /\ \E k \in FieldKeys :
                /\ ChangedFields \subseteq {k}
                /\ k \in DOMAIN formState'
                /\ ~HasError(formErrors', k)
                /\ \A j \in FieldKeys \ {k} :
                      /\ Get(formErrors', j) = Get(formErrors, j)
                      /\ HasError(formErrors', j) = HasError(formErrors, j)
          /\ DOMAIN formErrors \subseteq DOMAIN formErrors'
          /\ last'.validated = <<>>
          /\ last'.calls = <<>>]_vars

\* after a failed submit the name field was edited to a blank value: its error
\* is gone although the field is required, the email error is still there
C11_Witness ==
    /\ last.op = "change"
    /\ "name" \in DOMAIN formErrors
    /\ ~HasError(formErrors, "name")
    /\ IsBlankValue(Get(formState, "name"))
    /\ HasError(formErrors, "email")

----------------------------------------------------------------------------
(* C12 *)

\* C12: when renderActions is supplied and the table is shown, the render
\* calls renderActions once for each record of the filtered view, in row
\* order, and for no other record, whether or not onEdit and onDelete are
\* supplied; a render that shows no table calls it for no record.
C12_RenderActionsOncePerRow ==
    /\ ("renderActions" \in handlers /\ ~loading /\ filteredData # <<>>) =>
          /\ view.branch = "table"
          /\ view.actions = filteredData
    /\ (loading \/ filteredData = <<>>) => view.actions = <<>>

\* two records supplied, the query keeps one: renderActions is called for that
\* one only, next to the Edit and Delete buttons
C12_Witness ==
    /\ {"renderActions", "onEdit", "onDelete"} \subseteq handlers
    /\ view.branch = "table"
    /\ Len(data) = 2
    /\ Len(view.actions) = 1
    /\ view.actions[1] = Rec1
    /\ ~IsBlankQuery(search)

----------------------------------------------------------------------------
(* C13 *)

\* whether some field of the record, declared as a column or not, contains the
\* query as typed, case-insensitively
AnyFieldMatches(rec, q) ==
    \E k \in DOMAIN rec :
        /\ ~IsNullish(rec[k])
        /\ ContainsIgnoringCase(toString(rec[k]), q)

\* C13: for a non-blank query, every supplied record one of whose fields
\* contains the query is in the filtered view, also when the field has no
\* column declaration.
C13_SearchCoversAllFields ==
    ~IsBlankQuery(search) =>
        \A i \in 1..Len(data) :
            AnyFieldMatches(data[i], search) =>
                \E j \in 1..Len(filteredData) : filteredData[j] = data[i]

----------------------------------------------------------------------------
(* C14 *)

\* C14: the Edit button of a row invokes onEdit exactly once, and the argument
\* is the whole record of that row as the caller supplied it, the fields
\* without a column included; no other callback is invoked.
C14_EditPassesFullRecord ==
    last.op = "edit" =>
        /\ OnlyCall(last, "onEdit", last.row)
        /\ \E j \in 1..Len(filteredData) : filteredData[j] = last.row
        /\ \E i \in 1..Len(data) :
              /\ data[i] = last.row
              /\ DOMAIN last.calls[1].arg = DOMAIN data[i]

\* the edited row is the record with a role field, for which no column is
\* declared
C14_Witness ==
    /\ last.op = "edit"
    /\ last.row = Rec3
    /\ Get(last.calls[1].arg, "role") = Str(<<"J">>)
    /\ \A n \in 1..Len(columns) : columns[n].key # "role"

----------------------------------------------------------------------------
(* C15 *)

\* C15: whenever the supplied data is empty and loading is false, the
\* component displays emptyMessage, whatever the search query and the form
\* state.
C15_EmptyDataShowsEmptyMessage ==
    (data = <<>> /\ ~loading) =>
        /\ view.branch = "empty"
        /\ view.message = EmptyMessage

\* C15 (amended): whenever the supplied data is empty and loading is false,
\* the component displays emptyMessage if the search query is the empty
\* string, and 'No results found' if the query has any character, a blank one
\* included; the form state does not matter.
C15_EmptyDataMessageBySearch ==
    (data = <<>> /\ ~loading) =>
        /\ view.branch = "empty"
        /\ search = <<>> => view.message = EmptyMessage
        /\ search # <<>> => view.message = NoResultsMessage

\* no data, no query, pending form values and errors: emptyMessage is shown
C15_Witness ==
    /\ data = <<>>
    /\ ~loading
    /\ search = <<>>
    /\ formState # EmptyObject
    /\ \E k \in FieldKeys : HasError(formErrors, k)
    /\ view.message = EmptyMessage

----------------------------------------------------------------------------
(* C16 *)

\* C16: the resolved styles have exactly the regions of the defaults; in every
\* such region each key of the caller's override has the override's value,
\* each default key that the override lacks has its default value, and there
\* is no other key; the default style objects are what styles.js defines.
C16_StylesShallowMerged ==
    /\ DOMAIN styles = DOMAIN DefaultStyles
    /\ \A region \in DOMAIN DefaultStyles :
          LET def == DefaultStyles[region]
              over == IF region \in DOMAIN customStyles
                      THEN customStyles[region] ELSE EmptyObject
          IN  /\ DOMAIN styles[region] = (DOMAIN def) \cup (DOMAIN over)
              /\ \A k \in DOMAIN over : styles[region][k] = over[k]
              /\ \A k \in (DOMAIN def) \ (DOMAIN over) : styles[region][k] = def[k]
    /\ defaultStyles = DefaultStyles

\* the override of the test: the container turns red and keeps its padding,
\* while a second override adds a key that the defaults of its region lack
C16_Witness ==
    /\ "container" \in DOMAIN customStyles
    /\ customStyles["container"] = [backgroundColor |-> "red"]
    /\ styles["container"]["backgroundColor"] = "red"
    /\ styles["container"]["padding"] = "20px"
    /\ "table" \in DOMAIN customStyles
    /\ "zIndex" \in DOMAIN styles["table"]
    /\ defaultStyles["container"]["backgroundColor"] = "#ffffff"

----------------------------------------------------------------------------
(* C17 *)

\* C17: a search-input event leaves the pending form values and the errors
\* unchanged; a field edit or a submit leaves the search query unchanged; an
\* edit, delete or refresh action leaves all three unchanged. Read as "only":
\* the query changes on search-input events only, the form values and the
\* errors on field edits and submits only.
C17_SlicesChangeByOwnEvents ==
    [][/\ last'.op = "search" => (formState' = formState /\ formErrors' = formErrors)
       /\ last'.op \in {"change", "add"} => search' = search
       /\ last'.op \in {"edit", "delete", "refresh"} =>
             /\ search' = search
             /\ formState' = formState
             /\ formErrors' = formErrors
       /\ search' # search => last'.op = "search"
       /\ formState' # formState => last'.op \in {"change", "add"}
       /\ formErrors' # formErrors => last'.op \in {"change", "add"}]_vars

\* a query was typed while the form held values and errors
C17_Witness ==
    /\ last.op = "search"
    /\ search # <<>>
    /\ formState # EmptyObject
    /\ \E k \in FieldKeys : HasError(formErrors, k)

----------------------------------------------------------------------------
(* C18 *)

\* C18: when onAdd throws in a submit attempt that passed validation, the
\* pending form values after the attempt are the ones it started with, which
\* are the ones onAdd received, and the errors are empty; if the next event is
\* a submit attempt that passes validation, onAdd is invoked once more with
\* the same values.
C18_ThrownAddKeepsValues ==
    [][/\ (last'.op = "add" /\ Len(last'.calls) = 1 /\ last'.calls[1].threw) =>
             /\ last'.valid
             /\ formState' = formState
             /\ last'.calls[1].arg = formState'
             /\ formErrors' = EmptyObject
       /\ (/\ last.op = "add" /\ Len(last.calls) = 1 /\ last.calls[1].threw
           /\ last'.op = "add" /\ last'.valid) =>
             OnlyCall(last', "onAdd", last.calls[1].arg)]_vars

\* onAdd threw: the values it was given are still pending, no error is shown
C18_Witness ==
    /\ last.op = "add"
    /\ last.valid
    /\ Len(last.calls) = 1
    /\ last.calls[1].threw
    /\ DOMAIN formState = FieldKeys
    /\ formState = last.calls[1].arg
    /\ formErrors = EmptyObject

----------------------------------------------------------------------------
(* C19 *)

\* whether the n-th declared field fails in the submit attempt of this step:
\* it is required and blank, or its validation function returned other than
\* true
FieldFails(n) ==
    LET field == formFields[n]
    IN  \/ field.required /\ IsBlankValue(Get(formState, field.key))
        \/ \E i \in 1..Len(last'.validated) :
              /\ last'.validated[i].key = field.key
              /\ last'.validated[i].result # True

\* C19: a submit attempt in which some field fails validation leaves the
\* pending form values unchanged, and afterwards exactly the fields that
\* failed in this attempt have an error, whatever errors were recorded before.
C19_FailedSubmitReplacesErrors ==
    [][(last'.op = "add" /\ \E n \in 1..Len(formFields) : FieldFails(n)) =>
          /\ formState' = formState
          /\ \A n \in 1..Len(formFields) :
                HasError(formErrors', formFields[n].key) <=> FieldFails(n)]_vars

----------------------------------------------------------------------------
(* C20 *)

====
